---- MODULE Spec2Model ----
(***************************************************************************)
(* Simulation kernel of ceam/vivarium: the module registry with its        *)
(* dependency ordering (engine.py Simulation.register_module /             *)
(* deregister_module, util.py sort_modules) and the event bus              *)
(* (engine.py EventHandler, Simulation.emit_event), and the step loop      *)
(* (engine.py Simulation.run / reset, BaseSimulationModule) with the        *)
(* client modules of ceam/modules and experiment_runners; the Interpolation *)
(* of vivarium/interpolation.py.                                            *)
(*                                                                         *)
(* Python sets have no defined iteration or pop order: every place where   *)
(* the code iterates or pops a set is a nondeterministic choice of one     *)
(* ordering of that set.                                                   *)
(***************************************************************************)
EXTENDS Integers, Sequences, FiniteSets, TLC

\* ---------------------------------------------------------------- bounds
\* module objects that exist of the class that is instantiated more than once
MaxInst == 2
\* declared dependencies (edges of the dependency graph) over all module classes
MaxEdges == 2

\* listener registrations that callers hold on the event handlers at a time
MaxRegistrations == 3
\* simulants (rows of the population table, entries of an event mask)
NSim == 1
\* iterations of the loop of one Simulation.run
MaxSteps == 2
\* calls of Simulation.run on one Simulation
MaxRuns == 2

\* ------------------------------------------------------------- universe
BaseSimulationModule == "BaseSimulationModule"
\* the module classes other than BaseSimulationModule
Classes == {"A", "B", "C"}
AllClasses == Classes \cup {BaseSimulationModule}
\* a module object: its class and which object of that class it is; one object
\* of every class, and MaxInst objects of the class Reinstantiated
Reinstantiated == "A"
\* the client modules of the step loop: a disease module built on
\* chronic_condition_incidence_handler, and the modules main() registers
DiseaseModule == "DiseaseModule"
BloodPressureModule == "BloodPressureModule"
HealthcareAccessModule == "HealthcareAccessModule"
OpportunisticScreeningModule == "OpportunisticScreeningModule"
RunClasses ==
    {DiseaseModule, BloodPressureModule, HealthcareAccessModule,
     OpportunisticScreeningModule}
Instances ==
    [cls : AllClasses, id : {1}] \cup [cls : {Reinstantiated}, id : 1..MaxInst]
        \cup [cls : RunClasses, id : {1}]
ClientInstances == {m \in Instances : m.cls \in Classes}
NoModule == [cls |-> "None", id |-> 0]

\* event labels; NoLabel is Python's None
Labels == {"time_step", "deaths"}
NoLabel == "None"
\* the labels of the kernel and of the client modules
AllLabels ==
    Labels \cup {"time_step__continuous", "general_healthcare_access",
                 "followup_healthcare_access"}
\* the listeners BaseSimulationModule.__init__ registers, and the callables
\* callers register, named in the order in which callers first register them
BaseListeners == {"advance_age", "mortality_handler"}
ListenerNames == <<"f", "g", "h">>
\* priorities callers register with; 10 is the default of register_event_listener
DefaultPriority == 10
Priorities == {1, 5, DefaultPriority}
\* event masks: boolean vectors over the simulants
Masks == [1..NSim -> BOOLEAN]
\* the mask Simulation.run emits with: np.array([True]*len(self.population))
AllTrue == [i \in 1..NSim |-> TRUE]

\* datetimes and timedeltas are counted in half days, from 1990-01-01 on
\* (run_comparisons: datetime(1990, 1, 1), timedelta(days=30.5)); years have
\* 365 days; NoTime is None
HalfDaysPerYear == 730
StartYear == 1990
NoTime == -1
\* datetime.year
year_of(t) == StartYear + (t \div HalfDaysPerYear)
\* timedelta.days: the whole days of the timedelta
timedelta_days(d) == d \div 2
\* the time_step of the runs: timedelta(days=183.5)
TimeSteps == {367}
\* the time_step of run_comparisons: timedelta(days=30.5)
ScreeningTimeStep == 61
\* the start_time of the runs
StartTime == 0

\* yearly rates are counted in millionths; a rate per step is counted in
\* millionths of 1/HalfDaysPerYear
\* Mortality_Rates.csv: the all-cause mortality rate, here the same for every
\* age, sex and year
AllCauseMortalityRate == 10000
\* interpolated_reference_life_table.csv: the remaining life expectancy ex by
\* age
LifeTableMaxAge == 80
life_table(age) == IF age < LifeTableMaxAge THEN LifeTableMaxAge - age ELSE 0
\* the causes of the disease module, and the yearly incidence rate (0.2) its
\* incidence_rates adds for each of them
Conditions == {"heart_attack", "hemorrhagic_stroke"}
AdditiveIncidenceRate == 200000
\* BloodPressureModule.setup: incidence_mediation_factors[cause] = 0.3, in
\* thousandths
MediationFactor == 300
\* the disability weight the disease module's years_lived_with_disability
\* counts for every living simulant with a condition
DisabilityWeight == 1
\* the yearly rate at which simulants access healthcare
AccessRate == 500000
\* np.random.random: a uniform draw u is represented by -ln(1 - u) in step rate
\* units, so that u < 1 - exp(-rate) exactly when the representation is below
\* the rate; LowDraw is u = 0, HighDraw a draw above every probability here
LowDraw == 0
HighDraw == 1000000000
DrawValues == {LowDraw, HighDraw}
Draws == [1..NSim -> DrawValues]
\* age.csv: the ages simulants are loaded with
InitialAges == {59}
\* BloodPressureModule.load_population_columns: np.full(population_size, 112)
InitialSBP == 112
\* the configuration values of opportunistic_screening: cost and effectiveness
\* of a medication, multiplied by the adherence
MedicationCost == 1
MedicationEffect == 1
\* the cost of a blood pressure test
TestCost == 3

\* ---------------------------------------------------------------- state
VARIABLES
    DEPENDENCIES,         \* class attribute DEPENDENCIES of every module class
    modules,              \* Simulation._modules : class -> registered instance
    ordered_modules,      \* Simulation._ordered_modules
    lastCall,             \* the last registry call and how it ended
    listeners,            \* EventHandler._listeners of every module object
    generic_listeners,    \* EventHandler._generic_listeners of every module object
    listener_priorities,  \* EventHandler._listener_priorities of every module object
    invoked,              \* the listener invocations of the last emit, in order
    lastEmit,             \* the last emit: its kind, label and mask
    population_columns,   \* the modules' population_columns, joined: the initial image
    population,           \* Simulation.population
    current_time,         \* Simulation.current_time
    last_time_step,       \* Simulation.last_time_step
    yll_by_year,          \* Simulation.yll_by_year
    yld_by_year,          \* Simulation.yld_by_year
    cost_by_year,         \* OpportunisticScreeningModule.cost_by_year
    emitted,              \* the Simulation.emit_event calls of the last step, in order
    end_time,             \* the end_time argument of the current run
    pc,                   \* where the caller is: "idle", in the loop of run, "done"
    runs,                 \* the calls of run so far
    interpolations,       \* Interpolation.interpolations of the Interpolation built
    interpolated,         \* the last call of the Interpolation and how it ended
    categories            \* what the last call of _hypertensive_categories returned

registry_vars == <<DEPENDENCIES, modules, ordered_modules, lastCall>>
handler_vars == <<listeners, generic_listeners, listener_priorities>>
emit_vars == <<invoked, lastEmit>>
table_vars == <<population, yll_by_year, cost_by_year, emitted>>
run_vars == <<population_columns, current_time, last_time_step, yld_by_year,
              end_time, pc, runs>>
service_vars == <<interpolations, interpolated, categories>>
vars == <<registry_vars, handler_vars, emit_vars, table_vars, run_vars, service_vars>>

\* no Interpolation has been built or called, no categories have been computed
NoCall == [kind |-> "none", query |-> <<>>, result |-> <<>>]
NoCategories == [mask |-> <<>>, normotensive |-> <<>>, hypertensive |-> <<>>,
                 severe_hypertension |-> <<>>]
NoServices ==
    /\ interpolations = <<>>
    /\ interpolated = NoCall
    /\ categories = NoCategories

\* ------------------------------------------------------- list utilities
Range(s) == {s[k] : k \in DOMAIN s}

Max(a, b) == IF a >= b THEN a ELSE b

\* all orderings of a finite set, as sequences
Perms(S) == {s \in [1..Cardinality(S) -> S] : Range(s) = S}

\* list.index(x) of Python, 0-based; -1 stands for ValueError
Index0(s, x) ==
    IF x \in Range(s)
        THEN (CHOOSE k \in DOMAIN s : s[k] = x /\ \A j \in 1..(k-1) : s[j] # x) - 1
        ELSE -1

\* number of occurrences of x in the list s
Count(s, x) == Cardinality({k \in DOMAIN s : s[k] = x})

\* ------------------------------------------------- util.py sort_modules
\* the for loop of inner_sort over current.DEPENDENCIES, taken in the order deps:
\* modules_registry[dependency] raises KeyError for an unregistered class;
\* sorted_modules.index raises ValueError for a module not yet sorted, and the
\* except branch then evaluates the undefined name `modules`: NameError.
RECURSIVE dependency_loop(_, _, _, _)
dependency_loop(deps, i, sorted_modules, modules_registry) ==
    IF deps = <<>> THEN [err |-> "none", i |-> i]
    ELSE LET dependency == Head(deps) IN
        IF dependency \notin DOMAIN modules_registry
            THEN [err |-> "KeyError", i |-> i]
        ELSE IF Index0(sorted_modules, modules_registry[dependency]) = -1
            THEN [err |-> "NameError", i |-> i]
        ELSE dependency_loop(Tail(deps),
                             Max(i, Index0(sorted_modules, modules_registry[dependency])),
                             sorted_modules, modules_registry)

\* inner_sort(sorted_modules, current) when the DEPENDENCIES set is iterated in
\* the order deps
inner_sort(sorted_modules, current, modules_registry, deps) ==
    IF deps = <<>>
        THEN [err |-> "none", val |-> <<current>> \o sorted_modules]
    ELSE LET r == dependency_loop(deps, 0, sorted_modules, modules_registry) IN
        IF r.err # "none" THEN [err |-> r.err, val |-> <<>>]
        ELSE [err |-> "none",
              val |-> SubSeq(sorted_modules, 1, r.i + 1) \o <<current>>
                      \o SubSeq(sorted_modules, r.i + 2, Len(sorted_modules))]

\* the while loop of sort_modules; pops is the order in which to_sort.pop()
\* hands out the elements of the set to_sort. The result is the set of the
\* outcomes over all iteration orders of the DEPENDENCIES sets.
RECURSIVE sort_loop(_, _, _, _)
sort_loop(pops, sorted_modules, modules_registry, deps_of) ==
    IF Range(pops) \ Range(sorted_modules) = {}
        THEN {[err |-> "none", val |-> sorted_modules]}
    ELSE LET current == Head(pops) IN
        UNION {LET r == inner_sort(sorted_modules, current, modules_registry, deps) IN
                  IF r.err # "none" THEN {r}
                  ELSE sort_loop(Tail(pops), r.val, modules_registry, deps_of)
               : deps \in Perms(deps_of[current.cls])}

\* sort_modules(to_sort, modules_registry): the outcomes over all pop orders
sort_modules(to_sort, modules_registry, deps_of) ==
    UNION {sort_loop(pops, <<>>, modules_registry, deps_of) : pops \in Perms(to_sort)}

\* --------------------------------------------------- engine.py Simulation
insert_base_at_end(sorted_modules, base) == sorted_modules \o <<base>>

\* self._ordered_modules.insert(0, self._modules[BaseSimulationModule])
insert_base(sorted_modules, base) == <<base>> \o sorted_modules

\* self._modules[module.__class__] = module
store_module(registry, module) ==
    [c \in DOMAIN registry \cup {module.cls} |->
        IF c = module.cls THEN module ELSE registry[c]]

\* del self._modules[module.__class__]
delete_module(registry, cls) == [c \in DOMAIN registry \ {cls} |-> registry[c]]

\* lines 90-93 / 99-102: the re-ordering "dance" shared by register_module and
\* deregister_module; the values it can produce for the new _ordered_modules,
\* or the error it raises
reorder_outcomes(registry, deps_of) ==
    IF BaseSimulationModule \notin DOMAIN registry
        THEN {[err |-> "KeyError", val |-> <<>>]}
    ELSE LET to_sort == Range(registry) \ {registry[BaseSimulationModule]} IN
        {IF r.err # "none" THEN r
         ELSE [err |-> "none",
               val |-> insert_base(r.val, registry[BaseSimulationModule])]
         : r \in sort_modules(to_sort, registry, deps_of)}

\* Simulation.register_module(module)
register_module(module) ==
    LET registry == store_module(modules, module) IN
    \E r \in reorder_outcomes(registry, DEPENDENCIES) :
        /\ modules' = registry
        /\ ordered_modules' = IF r.err = "none" THEN r.val ELSE ordered_modules
        /\ lastCall' = [op |-> "register", module |-> module, err |-> r.err]
        /\ UNCHANGED <<service_vars, DEPENDENCIES, handler_vars, emit_vars, table_vars, run_vars>>

\* Simulation.deregister_module(module)
deregister_module(module) ==
    IF module.cls \notin DOMAIN modules
    THEN \* del raises KeyError before anything changed
        /\ lastCall' = [op |-> "deregister", module |-> module, err |-> "KeyError"]
        /\ UNCHANGED <<service_vars, DEPENDENCIES, modules, ordered_modules, handler_vars, emit_vars,
                       table_vars, run_vars>>
    ELSE
        LET registry == delete_module(modules, module.cls) IN
        \E r \in reorder_outcomes(registry, DEPENDENCIES) :
            /\ modules' = registry
            /\ ordered_modules' = IF r.err = "none" THEN r.val ELSE ordered_modules
            /\ lastCall' = [op |-> "deregister", module |-> module, err |-> r.err]
            /\ UNCHANGED <<service_vars, DEPENDENCIES, handler_vars, emit_vars, table_vars, run_vars>>

\* ------------------------------------------------- engine.py EventHandler
\* the callables whose body changes the mask argument in place (such as the
\* `mask &= ...` of mortality_handler); here they invert every entry
Mutators == {"f"}

Listeners == Range(ListenerNames)
Rank(listener) == Index0(ListenerNames, listener)

NoEmit == [kind |-> "none", label |-> NoLabel, module |-> NoModule,
           mask |-> <<>>, mask_after |-> <<>>]

\* the listeners a module object holds for a label after its __init__ and its
\* setup(): BaseSimulationModule.__init__, the handlers the disease module makes
\* with chronic_condition_incidence_handler, BloodPressureModule.setup, the
\* HealthcareAccessModule, OpportunisticScreeningModule.setup
setup_listeners(cls, label) ==
    CASE cls = BaseSimulationModule /\ label = "time_step" -> BaseListeners
      [] cls = DiseaseModule /\ label = "time_step" ->
            {"heart_attack_handler", "hemorrhagic_stroke_handler"}
      [] cls = BloodPressureModule /\ label = "time_step__continuous" ->
            {"update_systolic_blood_pressure"}
      [] cls = HealthcareAccessModule /\ label = "time_step" -> {"general_access"}
      [] cls = OpportunisticScreeningModule /\ label = "general_healthcare_access" ->
            {"non_followup_blood_pressure_test"}
      [] cls = OpportunisticScreeningModule /\ label = "followup_healthcare_access" ->
            {"followup_blood_pressure_test"}
      [] cls = OpportunisticScreeningModule /\ label = "time_step" ->
            {"track_monthly_cost", "adjust_blood_pressure"}
      [] OTHER -> {}

\* the priority of a listener of setup_listeners: advance_age 0, mortality_handler
\* 1, the default for the others
setup_priority(listener) ==
    IF listener = "advance_age" THEN 0
    ELSE IF listener = "mortality_handler" THEN 1
    ELSE DefaultPriority

\* Simulation.__init__: no clock, empty accumulators, no population table
InitSimulation ==
    /\ population_columns = <<>>
    /\ population = <<>>
    /\ current_time = NoTime
    /\ last_time_step = NoTime
    /\ yll_by_year = <<>>
    /\ yld_by_year = <<>>
    /\ cost_by_year = <<>>
    /\ emitted = <<>>
    /\ end_time = NoTime
    /\ pc = "idle"
    /\ runs = 0

\* EventHandler.__init__ for every module object, followed by the registrations
\* of __init__ and setup for the module objects of the set ready
InitListeners(ready) ==
    /\ listeners = [m \in Instances |-> [l \in AllLabels |->
            IF m \in ready THEN setup_listeners(m.cls, l) ELSE {}]]
    /\ generic_listeners = [m \in Instances |-> {}]
    /\ listener_priorities = [m \in Instances |->
            LET keys == IF m \in ready
                            THEN UNION {{l} \X setup_listeners(m.cls, l) : l \in AllLabels}
                            ELSE {}
            IN [k \in keys |-> setup_priority(k[2])]]
    /\ invoked = <<>>
    /\ lastEmit = NoEmit

\* a new Simulation whose BaseSimulationModule is the only module with listeners
InitHandlers ==
    /\ InitListeners({[cls |-> BaseSimulationModule, id |-> 1]})
    /\ InitSimulation

\* d[key] = value of a Python dict
dict_set(d, key, value) ==
    [k \in DOMAIN d \cup {key} |-> IF k = key THEN value ELSE d[k]]

\* del d[key]
dict_del(d, key) == [k \in DOMAIN d \ {key} |-> d[k]]

\* EventHandler.register_event_listener(listener, label, priority) on the module
\* object m; `if label:` takes None (and the empty string, which is not among
\* the labels here) to the generic listeners
register_event_listener(m, listener, label, priority) ==
    /\ IF label # NoLabel
        THEN /\ listeners' = [listeners EXCEPT ![m][label] = @ \cup {listener}]
             /\ UNCHANGED generic_listeners
        ELSE /\ generic_listeners' = [generic_listeners EXCEPT ![m] = @ \cup {listener}]
             /\ UNCHANGED listeners
    /\ listener_priorities' =
            [listener_priorities EXCEPT ![m] = dict_set(@, <<label, listener>>, priority)]
    /\ invoked' = <<>>
    /\ lastEmit' = NoEmit
    /\ UNCHANGED <<service_vars, registry_vars, table_vars, run_vars>>

\* EventHandler.deregister_event_listener(listener, label) on the module object m;
\* set.remove raises KeyError for a listener that is not registered there
deregister_event_listener(m, listener, label) ==
    IF <<label, listener>> \notin DOMAIN listener_priorities[m]
    THEN /\ invoked' = <<>>
         /\ lastEmit' = NoEmit
         /\ UNCHANGED <<service_vars, registry_vars, handler_vars, table_vars, run_vars>>
    ELSE /\ IF label # NoLabel
            THEN /\ listeners' = [listeners EXCEPT ![m][label] = @ \ {listener}]
                 /\ UNCHANGED generic_listeners
            ELSE /\ generic_listeners' = [generic_listeners EXCEPT ![m] = @ \ {listener}]
                 /\ UNCHANGED listeners
         /\ listener_priorities' =
                [listener_priorities EXCEPT ![m] = dict_del(@, <<label, listener>>)]
         /\ invoked' = <<>>
         /\ lastEmit' = NoEmit
         /\ UNCHANGED <<service_vars, registry_vars, table_vars, run_vars>>

\* one (priority, listener) pair of emit_event's list; key tells which of the
\* two comprehensions produced it
listener_entry(m, key, listener) ==
    [priority |-> listener_priorities[m][<<key, listener>>],
     listener |-> listener, key |-> key]

\* lines 44-45: the listeners of the label, then the generic listeners, each set
\* in one of its iteration orders
collect_listeners(m, label) ==
    {[k \in 1..Len(p1) |-> listener_entry(m, label, p1[k])]
        \o [k \in 1..Len(p2) |-> listener_entry(m, NoLabel, p2[k])]
     : p1 \in Perms(listeners[m][label]), p2 \in Perms(generic_listeners[m])}

\* sorted(listeners, key=lambda x: x[0]): Python's sort is stable, so an entry
\* goes behind the entries of lower or equal priority that came before it
insert_by_priority(s, x) ==
    LET k == Cardinality({j \in DOMAIN s : s[j].priority <= x.priority}) IN
    SubSeq(s, 1, k) \o <<x>> \o SubSeq(s, k + 1, Len(s))

RECURSIVE sort_fold(_, _)
sort_fold(todo, acc) ==
    IF todo = <<>> THEN acc
    ELSE sort_fold(Tail(todo), insert_by_priority(acc, Head(todo)))

not_sorted(entries) == entries

sorted_by_priority(entries) == sort_fold(entries, <<>>)

\* masks are numpy arrays, objects on the heap: heap is the list of the arrays
\* allocated so far, a reference is an index into it
no_copy(heap, ref) == [heap |-> heap, ref |-> ref]

\* mask.copy(): a new array with the same entries
mask_copy(heap, ref) == [heap |-> Append(heap, heap[ref]), ref |-> Len(heap) + 1]

\* -------------------------------------------- population table and rates
Rows == 1..NSim

\* mask.sum()
count(mask) == Cardinality({i \in Rows : mask[i]})

\* Series.sum() of the entries 1..n
RECURSIVE series_sum(_, _)
series_sum(f, n) == IF n = 0 THEN 0 ELSE f[n] + series_sum(f, n - 1)

\* d[key] += value of a defaultdict
dict_add(d, key, value) ==
    dict_set(d, key, (IF key \in DOMAIN d THEN d[key] ELSE 0) + value)

\* population.loc[mask, column] = value
loc_set(table, mask, column, value) ==
    [i \in Rows |-> IF mask[i] THEN [table[i] EXCEPT ![column] = value] ELSE table[i]]

\* Series.astype(int) of a fractional age, which is counted in 1/365 of a year
astype_int(fractional_age) == fractional_age \div 365

\* util.py from_yearly_rate: rate * (time_step.total_seconds() / (60*60*24*365.0)),
\* the result counted in 1/HalfDaysPerYear of the unit of the yearly rate
from_yearly_rate(rate, time_step) == rate * time_step

\* util.py mask_for_rate with the draws of one np.random.random call:
\* draw < rate_to_probability(rate)
mask_for_rate(draw, rate) == [i \in Rows |-> draw[i] < rate[i]]

\* module.mortality_rates(population, rates): BaseSimulationModule adds the
\* all-cause rate of each simulant's age, sex and year; SimulationModule
\* returns the rates
module_mortality_rates(m, table, rates) ==
    IF m.cls = BaseSimulationModule
        THEN [i \in Rows |-> rates[i] + AllCauseMortalityRate]
        ELSE rates

\* Simulation.mortality_rates(population)
RECURSIVE fold_mortality_rates(_, _, _)
fold_mortality_rates(mods, table, rates) ==
    IF mods = <<>> THEN rates
    ELSE fold_mortality_rates(Tail(mods), table,
                              module_mortality_rates(Head(mods), table, rates))

mortality_rates(mods, table, time_step) ==
    LET rates == fold_mortality_rates(mods, table, [i \in Rows |-> 0]) IN
    [i \in Rows |-> from_yearly_rate(rates[i], time_step)]

\* np.maximum(1.5**((systolic_blood_pressure - 112.5) / 10), 1), in thousandths;
\* above 112.5 the power is taken at the whole tens
blood_pressure_adjustment(sbp) ==
    IF 2 * sbp <= 225 THEN 1000
    ELSE LET k == (2 * sbp - 225) \div 20 IN (1000 * 3^k) \div 2^k

\* module.incidence_rates(population, rates, label): the disease module adds the
\* incidence rate of its causes; the BloodPressureModule multiplies the rates
\* of the causes it registers for by its adjustment; SimulationModule returns
\* the rates
module_incidence_rates(m, table, rates, label) ==
    IF m.cls = DiseaseModule /\ label \in Conditions
        THEN [i \in Rows |-> rates[i] + AdditiveIncidenceRate]
    ELSE IF m.cls = BloodPressureModule /\ label \in Conditions
        THEN [i \in Rows |->
                (rates[i] * blood_pressure_adjustment(table[i].systolic_blood_pressure))
                    \div 1000]
    ELSE rates

\* Simulation.incidence_rates(population, label)
RECURSIVE fold_incidence_rates(_, _, _, _)
fold_incidence_rates(mods, table, rates, label) ==
    IF mods = <<>> THEN rates
    ELSE fold_incidence_rates(Tail(mods), table,
                              module_incidence_rates(Head(mods), table, rates, label),
                              label)

incidence_rates(mods, table, label, time_step) ==
    LET rates == fold_incidence_rates(mods, table, [i \in Rows |-> 0], label) IN
    [i \in Rows |-> from_yearly_rate(rates[i], time_step)]

\* module.years_lived_with_disability(population) on the living simulants: the
\* disease module counts its weight for every condition a living simulant has;
\* SimulationModule returns 0.0
module_years_lived_with_disability(m, table) ==
    IF m.cls = DiseaseModule
        THEN DisabilityWeight *
             series_sum([i \in Rows |->
                            IF table[i].alive
                                THEN Cardinality({c \in Conditions : table[i][c]})
                                ELSE 0], NSim)
        ELSE 0

\* Simulation.years_lived_with_disability()
RECURSIVE years_lived_with_disability(_, _)
years_lived_with_disability(mods, table) ==
    IF mods = <<>> THEN 0
    ELSE module_years_lived_with_disability(Head(mods), table)
            + years_lived_with_disability(Tail(mods), table)

\* ------------------------------------------------------------ listeners
\* what an emit works on: the heap of mask arrays, the invocation log, the log
\* of the Simulation.emit_event calls, the tables the listeners write, the
\* draws np.random.random hands out next, and the module order
emit_state(heap, table, draws, order) ==
    [heap |-> heap, log |-> <<>>, emits |-> <<>>, population |-> table,
     yll_by_year |-> yll_by_year, cost_by_year |-> cost_by_year,
     draws |-> draws, order |-> order]

\* util.py only_living: fun(label, mask & (simulation.population.alive == True),
\* simulation); the new array is the last of the heap
not_only_living(st, ref) ==
    [st EXCEPT !.heap = Append(@, st.heap[ref])]

only_living(st, ref) ==
    [st EXCEPT !.heap =
        Append(@, [i \in Rows |-> st.heap[ref][i] /\ st.population[i].alive])]

\* BaseSimulationModule.advance_age
age_not_recomputed(st, ref) ==
    [st EXCEPT !.population =
        [i \in Rows |->
            IF st.heap[ref][i]
                THEN [@[i] EXCEPT !.fractional_age = @ + timedelta_days(last_time_step)]
                ELSE @[i]]]

advance_age(st, ref) ==
    LET aged == [i \in Rows |->
                    IF st.heap[ref][i]
                        THEN [st.population[i] EXCEPT
                                !.fractional_age = @ + timedelta_days(last_time_step)]
                        ELSE st.population[i]]
    IN [st EXCEPT !.population =
            [i \in Rows |-> [aged[i] EXCEPT !.age = astype_int(aged[i].fractional_age)]]]

alive_set_to_survivors(st, ref) ==
    LET rate == mortality_rates(st.order, st.population, last_time_step)
        hit == mask_for_rate(Head(st.draws), rate)
        mask == [i \in Rows |-> st.heap[ref][i] /\ hit[i]]
        ex == [i \in Rows |-> IF mask[i] THEN life_table(st.population[i].age) ELSE 0]
    IN [st EXCEPT !.heap[ref] = mask,
                  !.draws = Tail(@),
                  !.yll_by_year = dict_add(@, year_of(current_time), series_sum(ex, NSim)),
                  !.population = [i \in Rows |-> [@[i] EXCEPT !.alive = ~mask[i]]]]

\* lines 209-212 of mortality_handler, on the array only_living made
draw_deaths(st, ref) ==
    LET rate == mortality_rates(st.order, st.population, last_time_step)
        hit == mask_for_rate(Head(st.draws), rate)
        mask == [i \in Rows |-> st.heap[ref][i] /\ hit[i]]
        ex == [i \in Rows |-> IF mask[i] THEN life_table(st.population[i].age) ELSE 0]
    IN [st EXCEPT !.heap[ref] = mask,
                  !.draws = Tail(@),
                  !.yll_by_year = dict_add(@, year_of(current_time), series_sum(ex, NSim)),
                  !.population = loc_set(@, mask, "alive", FALSE)]

\* chronic_condition_incidence_handler(condition): the handler
incidence_handler(condition, st, ref) ==
    LET s1 == only_living(st, ref)
        susceptible == [i \in Rows |->
                           s1.heap[Len(s1.heap)][i] /\ ~s1.population[i][condition]]
        rate == incidence_rates(s1.order, s1.population, condition, last_time_step)
        hit == mask_for_rate(Head(s1.draws), rate)
        mask == [i \in Rows |-> susceptible[i] /\ hit[i]]
    IN [s1 EXCEPT !.heap = @ \o <<susceptible, mask>>,
                  !.draws = Tail(@),
                  !.population = loc_set(@, mask, condition, TRUE)]

\* opportunistic_screening.py _hypertensive_categories(mask, population)
categories_with_180_in_both(mask, table) ==
    LET under_60 == [i \in Rows |-> mask[i] /\ table[i].age < 60]
        over_60 == [i \in Rows |-> mask[i] /\ table[i].age >= 60]
        under_140 == [i \in Rows |-> table[i].systolic_blood_pressure < 140]
        under_150 == [i \in Rows |-> table[i].systolic_blood_pressure < 150]
        under_180 == [i \in Rows |-> table[i].systolic_blood_pressure < 180]
        up_to_180 == [i \in Rows |-> table[i].systolic_blood_pressure <= 180]
    IN [normotensive |->
            [i \in Rows |-> (under_60[i] /\ under_140[i]) \/ (over_60[i] /\ under_150[i])],
        hypertensive |->
            [i \in Rows |-> \/ (under_60[i] /\ ~under_140[i] /\ up_to_180[i])
                            \/ (over_60[i] /\ ~under_150[i] /\ up_to_180[i])],
        severe_hypertension |-> [i \in Rows |-> mask[i] /\ ~under_180[i]]]

_hypertensive_categories(mask, table) ==
    LET under_60 == [i \in Rows |-> mask[i] /\ table[i].age < 60]
        over_60 == [i \in Rows |-> mask[i] /\ table[i].age >= 60]
        under_140 == [i \in Rows |-> table[i].systolic_blood_pressure < 140]
        under_150 == [i \in Rows |-> table[i].systolic_blood_pressure < 150]
        under_180 == [i \in Rows |-> table[i].systolic_blood_pressure < 180]
    IN [normotensive |->
            [i \in Rows |-> (under_60[i] /\ under_140[i]) \/ (over_60[i] /\ under_150[i])],
        hypertensive |->
            [i \in Rows |-> \/ (under_60[i] /\ ~under_140[i] /\ under_180[i])
                            \/ (over_60[i] /\ ~under_150[i] /\ under_180[i])],
        severe_hypertension |-> [i \in Rows |-> mask[i] /\ ~under_180[i]]]

\* OpportunisticScreeningModule.non_followup_blood_pressure_test; timedelta(days=
\* 30.5*60), (days=30.5) and (days=30.5*6) in half days
non_followup_blood_pressure_test(st, ref) ==
    LET mask == st.heap[ref]
        c == _hypertensive_categories(mask, st.population)
        t1 == loc_set(st.population, c.normotensive,
                      "healthcare_followup_date", current_time + 3660)
        t2 == loc_set(t1, c.hypertensive, "healthcare_followup_date", current_time + 61)
        t3 == loc_set(t2, c.severe_hypertension,
                      "healthcare_followup_date", current_time + 366)
        t4 == loc_set(t3, c.severe_hypertension, "taking_blood_pressure_medication_a", TRUE)
        t5 == loc_set(t4, c.severe_hypertension, "taking_blood_pressure_medication_b", TRUE)
    IN [st EXCEPT !.cost_by_year =
                      dict_add(@, year_of(current_time), count(mask) * TestCost),
                  !.population = t5]

\* OpportunisticScreeningModule.followup_blood_pressure_test
followup_blood_pressure_test(st, ref) ==
    LET mask == st.heap[ref]
        table == st.population
        c == _hypertensive_categories(mask, table)
        nonmedicated_normotensive ==
            [i \in Rows |-> /\ c.normotensive[i]
                            /\ table[i].taking_blood_pressure_medication_a = FALSE
                            /\ table[i].taking_blood_pressure_medication_b = FALSE]
        medicated_normotensive ==
            [i \in Rows |-> /\ c.normotensive[i]
                            /\ \/ table[i].taking_blood_pressure_medication_a = FALSE
                               \/ table[i].taking_blood_pressure_medication_b = FALSE]
        t1 == loc_set(table, nonmedicated_normotensive,
                      "healthcare_followup_date", current_time + 3660)
        t2 == loc_set(t1, medicated_normotensive,
                      "healthcare_followup_date", current_time + 671)
        t3 == loc_set(t2, medicated_normotensive, "taking_blood_pressure_medication_a", FALSE)
        t4 == loc_set(t3, medicated_normotensive, "taking_blood_pressure_medication_b", FALSE)
        t5 == loc_set(t4, c.hypertensive, "healthcare_followup_date", current_time + 366)
        t6 == loc_set(t5, c.hypertensive, "taking_blood_pressure_medication_a", TRUE)
        t7 == loc_set(t6, c.severe_hypertension,
                      "healthcare_followup_date", current_time + 366)
        t8 == loc_set(t7, c.severe_hypertension, "taking_blood_pressure_medication_a", TRUE)
        t9 == loc_set(t8, c.severe_hypertension, "taking_blood_pressure_medication_b", TRUE)
    IN [st EXCEPT !.cost_by_year =
                      dict_add(@, year_of(current_time), count(mask) * TestCost),
                  !.population = t9]

\* OpportunisticScreeningModule.track_monthly_cost, on the array only_living made
track_monthly_cost(st, ref) ==
    LET on(medication) ==
            count([i \in Rows |-> st.heap[ref][i] /\ st.population[i][medication]])
                * MedicationCost * timedelta_days(last_time_step)
    IN [st EXCEPT !.cost_by_year =
            dict_add(dict_add(@, year_of(current_time),
                              on("taking_blood_pressure_medication_a")),
                     year_of(current_time), on("taking_blood_pressure_medication_b"))]

\* OpportunisticScreeningModule.adjust_blood_pressure, on the array only_living made
adjust_blood_pressure(st, ref) ==
    LET lowered(table, medication) ==
            [i \in Rows |->
                IF st.heap[ref][i] /\ table[i][medication]
                    THEN [table[i] EXCEPT !.systolic_blood_pressure = @ - MedicationEffect]
                    ELSE table[i]]
    IN [st EXCEPT !.population =
            lowered(lowered(@, "taking_blood_pressure_medication_a"),
                    "taking_blood_pressure_medication_b")]

\* the cause of a handler chronic_condition_incidence_handler returned
condition_of(listener) ==
    IF listener = "heart_attack_handler" THEN "heart_attack" ELSE "hemorrhagic_stroke"

IncidenceHandlers == {"heart_attack_handler", "hemorrhagic_stroke_handler"}

\* Simulation.emit_event is called: the call is logged with the label, the
\* entries of the mask, the number of listener invocations so far, and the
\* columns of the BaseSimulationModule as they are at the call
record_emit(st, label, ref) ==
    [st EXCEPT !.emits =
        Append(@, [label |-> label, mask |-> st.heap[ref], at |-> Len(st.log),
                   table |-> [i \in DOMAIN st.population |->
                                [alive |-> st.population[i].alive,
                                 age |-> st.population[i].age,
                                 fractional_age |-> st.population[i].fractional_age]]])]

RECURSIVE call_listener(_, _, _), invoke_listeners(_, _, _, _, _),
          emit_event(_, _, _, _), simulation_emit_event(_, _, _, _)

deaths_emitted_first(st, ref) ==
    LET s1 == only_living(st, ref)
        r == Len(s1.heap)
    IN {draw_deaths(s2, r)
        : s2 \in simulation_emit_event(s1.order, "deaths", record_emit(s1, "deaths", r), r)}

\* BaseSimulationModule.mortality_handler, with only_living around it
mortality_handler(st, ref) ==
    LET s1 == only_living(st, ref)
        s2 == draw_deaths(s1, Len(s1.heap))
    IN simulation_emit_event(s2.order, "deaths",
                             record_emit(s2, "deaths", Len(s1.heap)), Len(s1.heap))

\* the time_step listener of the HealthcareAccessModule: the living simulants
\* who access healthcare in the step are the mask of 'general_healthcare_access'
general_access(st, ref) ==
    LET s1 == only_living(st, ref)
        r == Len(s1.heap)
        hit == mask_for_rate(Head(s1.draws),
                             [i \in Rows |-> from_yearly_rate(AccessRate, last_time_step)])
        s2 == [s1 EXCEPT !.heap[r] = [i \in Rows |-> s1.heap[r][i] /\ hit[i]],
                         !.draws = Tail(@)]
    IN simulation_emit_event(s2.order, "general_healthcare_access",
                             record_emit(s2, "general_healthcare_access", r), r)

\* listener(label, mask, simulation): the states the call can end in. The
\* callables of the callers that are Mutators invert their mask in place, the
\* others do nothing
call_listener(listener, st, ref) ==
    CASE listener \in Mutators ->
            {[st EXCEPT !.heap[ref] = [i \in DOMAIN @ |-> ~@[i]]]}
      [] listener = "advance_age" -> {advance_age(st, ref)}
      [] listener = "mortality_handler" -> mortality_handler(st, ref)
      [] listener \in IncidenceHandlers ->
            {incidence_handler(condition_of(listener), st, ref)}
      [] listener = "general_access" -> general_access(st, ref)
      [] listener = "non_followup_blood_pressure_test" ->
            {non_followup_blood_pressure_test(st, ref)}
      [] listener = "followup_blood_pressure_test" ->
            {followup_blood_pressure_test(st, ref)}
      [] listener = "track_monthly_cost" ->
            {LET s1 == only_living(st, ref) IN track_monthly_cost(s1, Len(s1.heap))}
      [] listener = "adjust_blood_pressure" ->
            {LET s1 == only_living(st, ref) IN adjust_blood_pressure(s1, Len(s1.heap))}
      [] OTHER -> {st}

\* lines 47-48: the for loop over the sorted listeners of the module m; the log
\* entry records the entries of the array the listener finds in its argument
invoke_listeners(todo, m, label, st, mask) ==
    IF todo = <<>> THEN {st}
    ELSE LET arg == mask_copy(st.heap, mask)
             call == [module |-> m, listener |-> Head(todo).listener,
                      priority |-> Head(todo).priority, key |-> Head(todo).key,
                      label |-> label, seen |-> arg.heap[arg.ref]]
             s1 == [st EXCEPT !.heap = arg.heap, !.log = Append(@, call)]
         IN UNION {invoke_listeners(Tail(todo), m, label, s2, mask)
                   : s2 \in call_listener(Head(todo).listener, s1, arg.ref)}

\* EventHandler.emit_event(label, mask, simulation) on the module object m: the
\* states it can end in
emit_event(m, label, st, mask) ==
    UNION {invoke_listeners(sorted_by_priority(entries), m, label, st, mask)
           : entries \in collect_listeners(m, label)}

\* Simulation.emit_event(label, mask): for module in self._ordered_modules
simulation_emit_event(mods, label, st, mask) ==
    IF mods = <<>> THEN {st}
    ELSE UNION {simulation_emit_event(Tail(mods), label, s1, mask)
                : s1 \in emit_event(Head(mods), label, st, mask)}

\* a caller emits on one module object, with a mask array of the given entries
EmitOnModule(m, label, entries) ==
    \E r \in emit_event(m, label,
                        emit_state(<<entries>>, population, <<>>, ordered_modules), 1) :
        /\ invoked' = r.log
        /\ lastEmit' = [kind |-> "module", label |-> label, module |-> m,
                        mask |-> entries, mask_after |-> r.heap[1]]
        /\ population' = r.population
        /\ yll_by_year' = r.yll_by_year
        /\ cost_by_year' = r.cost_by_year
        /\ emitted' = r.emits
        /\ UNCHANGED <<service_vars, registry_vars, handler_vars, run_vars>>

\* a caller emits on the simulation, with a mask array of the given entries
EmitOnSimulation(label, entries) ==
    \E r \in simulation_emit_event(ordered_modules, label,
                record_emit(emit_state(<<entries>>, population, <<>>, ordered_modules),
                            label, 1), 1) :
        /\ invoked' = r.log
        /\ lastEmit' = [kind |-> "simulation", label |-> label, module |-> NoModule,
                        mask |-> entries, mask_after |-> r.heap[1]]
        /\ population' = r.population
        /\ yll_by_year' = r.yll_by_year
        /\ cost_by_year' = r.cost_by_year
        /\ emitted' = r.emits
        /\ UNCHANGED <<service_vars, registry_vars, handler_vars, run_vars>>

\* ----------------------------------------------------- the specifications
\* the classes' declared dependency sets: BaseSimulationModule inherits
\* SimulationModule.DEPENDENCIES = set(); the other classes declare any sets of
\* classes, at most MaxEdges dependencies in all
Edges == Classes \X AllClasses

DependencyGraphs ==
    {[c \in AllClasses |-> {e[2] : e \in {x \in E : x[1] = c}}] :
        E \in {F \in SUBSET Edges : Cardinality(F) <= MaxEdges}}

BaseInstance == [cls |-> BaseSimulationModule, id |-> 1]

\* Simulation.__init__: empty registry, then register_module(BaseSimulationModule())
InitRegistry ==
    LET registry == store_module(<<>>, BaseInstance) IN
        /\ modules = registry
        /\ \E r \in reorder_outcomes(registry, DEPENDENCIES) : ordered_modules = r.val
        /\ lastCall = [op |-> "init", module |-> BaseInstance, err |-> "none"]

\* Registry: a new Simulation, on which callers register and deregister modules
Init ==
    /\ DEPENDENCIES \in DependencyGraphs
    /\ InitRegistry
    /\ InitHandlers
    /\ NoServices

\* the modules the caller registers and deregisters: Simulation.__init__ has
\* registered the BaseSimulationModule, callers handle the other classes
Register == \E module \in ClientInstances : register_module(module)

Deregister == \E module \in ClientInstances : deregister_module(module)

Next == Register \/ Deregister

Spec == Init /\ [][Next]_vars

\* Event handling: a Simulation on which modules without dependencies have been
\* registered; callers register listeners on them and emit
ModuleA == [cls |-> "A", id |-> 1]
ModuleB == [cls |-> "B", id |-> 1]

\* the Simulation after register_module of the module objects of the list mods
RECURSIVE registry_after(_)
registry_after(mods) ==
    IF mods = <<>> THEN store_module(<<>>, BaseInstance)
    ELSE store_module(registry_after(SubSeq(mods, 1, Len(mods) - 1)), mods[Len(mods)])

InitEvents(mods) ==
    /\ DEPENDENCIES = [c \in AllClasses |-> {}]
    /\ modules = registry_after(mods)
    /\ \E r \in reorder_outcomes(registry_after(mods), DEPENDENCIES) :
            ordered_modules = r.val
    /\ lastCall = [op |-> "register", module |-> mods[Len(mods)], err |-> "none"]
    /\ InitHandlers
    /\ NoServices

\* the registrations callers hold on the modules other than the Base module
Registrations ==
    UNION {{<<m, k>> : k \in DOMAIN listener_priorities[m]} : m \in ClientInstances}

\* callers register at most MaxRegistrations listeners, and ListenerNames names
\* the callables in the order in which they are registered
MayRegister(m, listener, label) ==
    /\ \/ <<m, <<label, listener>>>> \in Registrations
       \/ Cardinality(Registrations) < MaxRegistrations
    /\ \A r \in Registrations : Rank(r[2][2]) <= Rank(listener)

RegisterListener(ms, callables, labels, priorities) ==
    \E m \in ms, listener \in callables, label \in labels \cup {NoLabel},
       priority \in priorities :
        /\ MayRegister(m, listener, label)
        /\ register_event_listener(m, listener, label, priority)

DeregisterListener(ms, callables, labels) ==
    \E m \in ms, listener \in callables, label \in labels \cup {NoLabel} :
        deregister_event_listener(m, listener, label)

\* one event handler: listeners on ModuleA, emits on ModuleA
InitHandler == InitEvents(<<ModuleA>>)

HandlerRegister == RegisterListener({ModuleA}, Listeners, Labels, Priorities)
HandlerDeregister == DeregisterListener({ModuleA}, Listeners, Labels)
HandlerEmit == \E label \in Labels : EmitOnModule(ModuleA, label, AllTrue)

NextHandler == HandlerRegister \/ HandlerDeregister \/ HandlerEmit

SpecHandler == InitHandler /\ [][NextHandler]_vars

\* the fan-out of Simulation.emit_event over the modules: two callables as
\* listeners on ModuleA and ModuleB, for 'deaths' or generic; emits of 'deaths'
\* on the simulation ('time_step' belongs to the run loop)
InitBus == InitEvents(<<ModuleA, ModuleB>>)

BusLabels == {"deaths"}
BusPriorities == {1, DefaultPriority}
BusListeners == {"f", "g"}

BusRegister == RegisterListener({ModuleA, ModuleB}, BusListeners, BusLabels, BusPriorities)
BusDeregister == DeregisterListener({ModuleA, ModuleB}, BusListeners, BusLabels)
BusEmit == \E label \in BusLabels, entries \in Masks : EmitOnSimulation(label, entries)

NextBus == BusRegister \/ BusDeregister \/ BusEmit

SpecBus == InitBus /\ [][NextBus]_vars

\* ------------------------------------------------------------ step loop
\* the row load_population_columns of the modules make for a simulant of the
\* given age: age.csv, fractional_age = age.astype(float), alive = True; the
\* columns of the disease module, of the BloodPressureModule and of the
\* OpportunisticScreeningModule; the followup date of the HealthcareAccessModule
loaded_row(age) ==
    [age |-> age, fractional_age |-> 365 * age, alive |-> TRUE,
     heart_attack |-> FALSE, hemorrhagic_stroke |-> FALSE,
     systolic_blood_pressure |-> InitialSBP,
     taking_blood_pressure_medication_a |-> FALSE,
     taking_blood_pressure_medication_b |-> FALSE,
     healthcare_followup_date |-> NoTime]

\* Simulation.reset_population(): the modules' columns joined, and the column
\* 'year' of zeros
reset_population(columns) ==
    [i \in DOMAIN columns |->
        [f \in DOMAIN columns[i] \cup {"year"} |->
            IF f = "year" THEN 0 ELSE columns[i][f]]]

\* the Simulation after Simulation(), setup() and register_module of the module
\* objects of the list mods, a caller's register_event_listener of the callable
\* g for 'deaths' on the last of them, and load_population of simulants whose
\* columns are rows of the set rows
InitLoadedFrom(mods, rows) ==
    /\ DEPENDENCIES = [c \in AllClasses \cup RunClasses |-> {}]
    /\ modules = registry_after(mods)
    /\ \E r \in reorder_outcomes(registry_after(mods), DEPENDENCIES) :
            ordered_modules = r.val
    /\ lastCall = [op |-> "load_population", module |-> NoModule, err |-> "none"]
    /\ listeners = [m \in Instances |-> [l \in AllLabels |->
            IF m \in Range(mods) \cup {BaseInstance}
                THEN setup_listeners(m.cls, l)
                        \cup (IF m = mods[Len(mods)] /\ l = "deaths" THEN {"g"} ELSE {})
                ELSE {}]]
    /\ generic_listeners = [m \in Instances |-> {}]
    /\ listener_priorities = [m \in Instances |->
            LET keys == UNION {{l} \X listeners[m][l] : l \in AllLabels}
            IN [k \in keys |-> setup_priority(k[2])]]
    /\ invoked = <<>>
    /\ lastEmit = NoEmit
    /\ \E columns \in [Rows -> rows] :
            /\ population_columns = columns
            /\ population = reset_population(columns)
    /\ current_time = NoTime
    /\ last_time_step = NoTime
    /\ yll_by_year = <<>>
    /\ yld_by_year = <<>>
    /\ cost_by_year = <<>>
    /\ emitted = <<>>
    /\ end_time = NoTime
    /\ pc = "idle"
    /\ runs = 0
    /\ NoServices

\* load_population from the files of the modules: the ages of age.csv
InitLoaded(mods) == InitLoadedFrom(mods, {loaded_row(age) : age \in InitialAges})

\* the listeners of an emit of 'time_step' that call mask_for_rate, each once
DrawingListeners == {"mortality_handler", "general_access"} \cup IncidenceHandlers

draw_calls ==
    Cardinality(UNION {{<<m, f>> : f \in listeners[m]["time_step"] \cap DrawingListeners}
                       : m \in Range(ordered_modules)})

\* the test of the while loop of Simulation.run, line 130
loop_exits_at_end(time, end) == time < end

loop_continues(time, end) == time <= end

\* Simulation.run(start_time, end_time, time_step), lines 128-130, up to the
\* first test of the loop
run(start_time, end, time_step) ==
    /\ pc = "idle"
    /\ runs < MaxRuns
    /\ last_time_step' = time_step
    /\ end_time' = end
    /\ current_time' = start_time
    /\ pc' = IF loop_continues(start_time, end) THEN "running" ELSE "done"
    /\ runs' = runs + 1
    /\ lastCall' = [op |-> "run", module |-> NoModule, err |-> "none"]
    /\ UNCHANGED <<service_vars, DEPENDENCIES, modules, ordered_modules, handler_vars,
                   emit_vars, table_vars, population_columns, yld_by_year>>

\* a run from StartTime with a time_step of the set time_steps and an end_time
\* that makes the loop take one of the numbers of iterations of the set
\* iterations
run_start(time_steps, iterations) ==
    \E time_step \in time_steps, steps \in iterations :
        run(StartTime, StartTime + (steps - 1) * time_step, time_step)

\* the population table with population.year = current_time.year (line 131)
year_set(table) == [i \in Rows |-> [table[i] EXCEPT !.year = year_of(current_time)]]

\* lines 131-132: the states the emit of 'time_step' can end in, for the module
\* order mods and the draws np.random.random hands out
time_step_outcomes(mods, draws) ==
    simulation_emit_event(mods, "time_step",
        record_emit(emit_state(<<AllTrue>>, year_set(population), draws, mods),
                    "time_step", 1), 1)

\* line 133: self.yld_by_year[year] = self.years_lived_with_disability()
yld_stored(by_year, year, ylds) == dict_set(by_year, year, ylds)

\* one iteration of the while loop of Simulation.run, lines 130-134
RunStep ==
    /\ pc = "running"
    /\ \E draws \in [1..draw_calls -> Draws] :
        \E r \in time_step_outcomes(ordered_modules, draws) :
            /\ population' = r.population
            /\ yll_by_year' = r.yll_by_year
            /\ cost_by_year' = r.cost_by_year
            /\ invoked' = r.log
            /\ emitted' = r.emits
            /\ lastEmit' = [kind |-> "run", label |-> "time_step", module |-> NoModule,
                            mask |-> AllTrue, mask_after |-> r.heap[1]]
            /\ yld_by_year' =
                    yld_stored(yld_by_year, year_of(current_time),
                               years_lived_with_disability(ordered_modules, r.population))
    /\ current_time' = current_time + last_time_step
    /\ IF loop_continues(current_time + last_time_step, end_time)
        THEN pc' = "running" /\ end_time' = end_time
        ELSE pc' = "done" /\ end_time' = NoTime
    /\ lastCall' = [op |-> "step", module |-> NoModule, err |-> "none"]
    /\ UNCHANGED <<service_vars, DEPENDENCIES, modules, ordered_modules, handler_vars,
                   population_columns, last_time_step, runs>>

reset_keeps_population ==
    /\ pc \in {"idle", "done"}
    /\ current_time' = NoTime
    /\ yll_by_year' = <<>>
    /\ yld_by_year' = <<>>
    /\ pc' = "idle"
    /\ lastCall' = [op |-> "reset", module |-> NoModule, err |-> "none"]
    /\ invoked' = <<>>
    /\ emitted' = <<>>
    /\ lastEmit' = NoEmit
    /\ UNCHANGED <<service_vars, DEPENDENCIES, modules, ordered_modules, handler_vars, population,
                   population_columns, last_time_step, cost_by_year, end_time, runs>>

\* Simulation.reset(): module.reset() of every module is SimulationModule.reset,
\* which no module of the source overrides; then lines 140-146
Reset ==
    /\ pc \in {"idle", "done"}
    /\ population' = reset_population(population_columns)
    /\ current_time' = NoTime
    /\ yll_by_year' = <<>>
    /\ yld_by_year' = <<>>
    /\ pc' = "idle"
    /\ lastCall' = [op |-> "reset", module |-> NoModule, err |-> "none"]
    /\ invoked' = <<>>
    /\ emitted' = <<>>
    /\ lastEmit' = NoEmit
    /\ UNCHANGED <<service_vars, DEPENDENCIES, modules, ordered_modules, handler_vars,
                   population_columns, last_time_step, cost_by_year, end_time, runs>>

\* a caller's run
RunStart == run_start(TimeSteps, 1..MaxSteps)

NextRun == RunStart \/ RunStep \/ Reset

\* runs of a Simulation with the disease module and the BloodPressureModule
InitRun ==
    InitLoaded(<<[cls |-> BloodPressureModule, id |-> 1],
                 [cls |-> DiseaseModule, id |-> 1]>>)

SpecRun == InitRun /\ [][NextRun]_vars

\* runs with a time_step of one day, 30.5 days, 183.5 days, a year or two years,
\* and an end_time at, just before and just after each of the clock values
\* StartTime - 2 * time_step .. StartTime + (MaxSteps - 1) * time_step
ClockTimeSteps ==
    {2, ScreeningTimeStep, HalfDaysPerYear, 2 * HalfDaysPerYear} \cup TimeSteps

EndTimes(time_step) ==
    {StartTime + (steps - 1) * time_step + d : steps \in -1..MaxSteps, d \in {-1, 0, 1}}

RunUntil ==
    \E time_step \in ClockTimeSteps :
        \E end \in EndTimes(time_step) : run(StartTime, end, time_step)

NextClock == RunUntil \/ RunStep

\* runs of a Simulation with the BloodPressureModule
InitClock == InitLoaded(<<[cls |-> BloodPressureModule, id |-> 1]>>)

\* one run of a Simulation; the listeners of the source return, so an iteration
\* of the loop that was begun is completed: weak fairness of RunStep
SpecClock == InitClock /\ [][NextClock]_vars /\ WF_vars(RunStep)

\* runs of a Simulation with the modules of the screening experiment
InitCost ==
    InitLoaded(<<[cls |-> HealthcareAccessModule, id |-> 1],
                 [cls |-> OpportunisticScreeningModule, id |-> 1]>>)

\* run_comparisons: simulation.run(datetime(1990, 1, 1), datetime(2013, 12, 31),
\* timedelta(days=30.5)), each run followed by simulation.reset()
ComparisonRun == run_start({ScreeningTimeStep}, {MaxSteps})

NextCost == ComparisonRun \/ RunStep \/ Reset

SpecCost == InitCost /\ [][NextCost]_vars

\* the modules of the screening experiment, registered and deregistered
\* OpportunisticScreeningModule.DEPENDS, the class attribute of line 36;
\* sort_modules reads the attribute DEPENDENCIES, which the class inherits from
\* SimulationModule: the empty set
DEPENDS == {BloodPressureModule, HealthcareAccessModule}

RunInstances == [cls : RunClasses, id : {1}]

\* main(): Simulation(), and setup() of every module object
InitOrder ==
    /\ DEPENDENCIES = [c \in AllClasses \cup RunClasses |-> {}]
    /\ InitRegistry
    /\ InitListeners(RunInstances \cup {BaseInstance})
    /\ InitSimulation
    /\ NoServices

RegisterRunModule == \E module \in RunInstances : register_module(module)

DeregisterRunModule == \E module \in RunInstances : deregister_module(module)

NextOrder == RegisterRunModule \/ DeregisterRunModule

SpecOrder == InitOrder /\ [][NextOrder]_vars

\* the blood pressure tests of the OpportunisticScreeningModule, on simulants of
\* the ages and the systolic blood pressures around the limits of
\* _hypertensive_categories, with and without the two medications
ScreeningAges == {59, 60}
Pressures == {139, 140, 149, 150, 179, 180}

ScreenedRows ==
    {[loaded_row(age) EXCEPT !.systolic_blood_pressure = sbp,
                             !.taking_blood_pressure_medication_a = a,
                             !.taking_blood_pressure_medication_b = b]
     : age \in ScreeningAges, sbp \in Pressures, a \in BOOLEAN, b \in BOOLEAN}

InitScreening ==
    InitLoadedFrom(<<[cls |-> OpportunisticScreeningModule, id |-> 1]>>, ScreenedRows)

\* the first emit of 'followup_healthcare_access' of a run, for any simulants
FollowupAccess ==
    /\ pc = "running"
    /\ lastEmit = NoEmit
    /\ \E entries \in Masks : EmitOnSimulation("followup_healthcare_access", entries)

\* _hypertensive_categories(mask, simulation.population)
Categorise ==
    /\ \E mask \in Masks :
        LET c == _hypertensive_categories(mask, population)
        IN categories' = [mask |-> mask, normotensive |-> c.normotensive,
                          hypertensive |-> c.hypertensive,
                          severe_hypertension |-> c.severe_hypertension]
    /\ UNCHANGED <<registry_vars, handler_vars, emit_vars, table_vars, run_vars,
                   interpolations, interpolated>>

NextScreening == ComparisonRun \/ FollowupAccess \/ Categorise

SpecScreening == InitScreening /\ [][NextScreening]_vars

\* ------------------------------------------- interpolation.py Interpolation
\* One Interpolation over the key column 'sex', the parameter column 'age' and
\* one value column, of order 0.  The values of the key column: two categories
\* and the missing value, which DataFrame.groupby leaves out of every group.
Keys == {"female", "male"}
NaNKey == "nan"
Knots == {20, 30}
QueryAges == {25, 35}
MaxQuery == 2
NaN == -1
NoResult == <<>>

\* the reference table of the categorical strata: value = age for male and
\* 2 * age for female
reference_value(key, age) == IF key = "male" THEN age ELSE 2 * age

\* interp1d(x, y, kind='zero', fill_value='extrapolate') (line 68): the value at
\* the last knot not above x, and at the first knot below the range
interp1d_zero(knots, x) ==
    LET below == {k \in DOMAIN knots : k <= x}
        knot == IF below = {}
                    THEN CHOOSE k \in DOMAIN knots : \A j \in DOMAIN knots : k <= j
                    ELSE CHOOSE k \in below : \A j \in below : j <= k
    IN knots[knot]

\* Interpolation.__init__, lines 35-71: one function for every group of the
\* table; the group of a category without rows is empty and is skipped
\* (lines 43-44).  data: the ages of the rows of every category
constructed(data) ==
    LET observed == {key \in DOMAIN data : data[key] # {}}
    IN [key \in observed |-> [age \in data[key] |-> reference_value(key, age)]]

\* the groups of interpolants.groupby(key_columns) (line 90): the keys of the
\* rows, without the missing value
groupby_keys(interpolants) ==
    {interpolants[i].sex : i \in DOMAIN interpolants} \ {NaNKey}

\* Interpolation.__call__, lines 87-108: self.interpolations[key] of line 97 is
\* a dict lookup, which raises KeyError for a group that was not built; the rows
\* of no group are never assigned and stay NaN in the result
call_result(built, interpolants) ==
    IF \E key \in groupby_keys(interpolants) : key \notin DOMAIN built
        THEN [kind |-> "KeyError", query |-> interpolants, result |-> NoResult]
        ELSE [kind |-> "ok", query |-> interpolants,
              result |-> [i \in DOMAIN interpolants |->
                    IF interpolants[i].sex = NaNKey THEN NaN
                    ELSE interp1d_zero(built[interpolants[i].sex],
                                       interpolants[i].age)]]

Queries ==
    UNION {[1..n -> [sex : Keys \cup {NaNKey}, age : QueryAges]] : n \in 1..MaxQuery}

\* Interpolation(data, ['sex'], ['age'], 0)
Construct ==
    /\ \E data \in [Keys -> SUBSET Knots] :
        /\ \E key \in Keys : data[key] # {}
        /\ interpolations' = constructed(data)
    /\ interpolated' = NoCall
    /\ UNCHANGED <<registry_vars, handler_vars, emit_vars, table_vars, run_vars,
                   categories>>

\* interpolation(interpolants)
Call ==
    /\ \E interpolants \in Queries :
        interpolated' = call_result(interpolations, interpolants)
    /\ UNCHANGED <<registry_vars, handler_vars, emit_vars, table_vars, run_vars,
                   interpolations, categories>>

\* the Interpolation of the reference table with all rows, built next to a new
\* Simulation
InitInterpolation ==
    /\ DEPENDENCIES = [c \in AllClasses \cup RunClasses |-> {}]
    /\ InitRegistry
    /\ InitHandlers
    /\ interpolations = constructed([key \in Keys |-> Knots])
    /\ interpolated = NoCall
    /\ categories = NoCategories

NextInterpolation == Construct \/ Call

SpecInterpolation == InitInterpolation /\ [][NextInterpolation]_vars

\* ======================================================= module registry
\* the registered classes
Registered == DOMAIN modules

\* every declared dependency of every registered module is registered
Resolved == \A c \in Registered : DEPENDENCIES[c] \subseteq Registered

\* the classes reached from the set S along declared dependencies, going
\* through the classes of the set reg only
RECURSIVE DependencyClosure(_, _)
DependencyClosure(S, reg) ==
    LET more == S \cup UNION {DEPENDENCIES[c] : c \in S \cap reg} IN
    IF more = S THEN S ELSE DependencyClosure(more, reg)

\* c depends on d, directly or through other classes of reg
DependsOnIn(reg, c, d) == d \in DependencyClosure(DEPENDENCIES[c], reg)

DependsOn(c, d) == DependsOnIn(Registered, c, d)

\* the declared dependencies of the registered modules contain a cycle
Cyclic ==
    \E c \in Registered :
        /\ DependsOn(c, c)
        /\ DependencyClosure(DEPENDENCIES[c], Registered) \subseteq Registered

Acyclic == \A c \in Registered : ~DependsOn(c, c)

\* x stands before y in the list order
PrecedesIn(order, x, y) ==
    /\ x \in Range(order)
    /\ y \in Range(order)
    /\ Index0(order, x) < Index0(order, y)

Precedes(x, y) == PrecedesIn(ordered_modules, x, y)

\* every registered module is in the module order, after all its dependencies
OrderRespectsDependencies ==
    \A c \in Registered :
        /\ modules[c] \in Range(ordered_modules)
        /\ \A d \in DEPENDENCIES[c] \cap Registered : Precedes(modules[d], modules[c])

\* C1: when all declared dependencies of the registered modules are registered
\* and acyclic, register_module succeeds and the module order has every module
\* after all of its dependencies, whatever order sort_modules pops in.
C1_RegisterOrdersTopologically ==
    (lastCall.op = "register" /\ Resolved /\ Acyclic)
        => (lastCall.err = "none" /\ OrderRespectsDependencies)

\* C2: after construction and after every successful register_module or
\* deregister_module of a non-Base module, the Base module is the first element
\* of the module order and is in it exactly once.
C2_BaseFirstExactlyOnce ==
    (lastCall.err = "none"
        /\ (lastCall.op = "init" \/ lastCall.module.cls # BaseSimulationModule))
    => /\ BaseSimulationModule \in Registered
       /\ Len(ordered_modules) >= 1
       /\ ordered_modules[1] = modules[BaseSimulationModule]
       /\ Cardinality({k \in DOMAIN ordered_modules :
                          ordered_modules[k].cls = BaseSimulationModule}) = 1

\* a module was deregistered successfully while two others stay registered
C2_Witness ==
    /\ lastCall.op = "deregister"
    /\ lastCall.err = "none"
    /\ lastCall.module.cls \in Classes
    /\ Len(ordered_modules) = 3

\* C3: registering a module that declares a dependency on a class that is not
\* registered fails with UnresolvedDependencyError.
C3_UnresolvedDependencyError ==
    (lastCall.op = "register"
        /\ ~(DEPENDENCIES[lastCall.module.cls] \subseteq Registered))
    => lastCall.err = "UnresolvedDependencyError"

\* C4: when the declared dependencies of the registered modules contain a
\* cycle, ordering fails with CyclicDependencyError.
C4_CyclicDependencyError ==
    (lastCall.op = "register" /\ Cyclic) => lastCall.err = "CyclicDependencyError"

\* neither of the two classes depends on the other, through the classes of reg
UnconstrainedIn(reg, x, y) == ~DependsOnIn(reg, x, y) /\ ~DependsOnIn(reg, y, x)

\* C5: among registered modules with no ordering constraint between them the
\* module order keeps the registration order. In steps: a register_module of a
\* class that was not registered, on a registry whose order is up to date,
\* leaves the modules that have no constraint between them in the order they
\* had, and puts the new module behind those it has no constraint with.
C5_StableRegistrationOrder ==
    [][(/\ lastCall.err = "none"
        /\ lastCall'.op = "register"
        /\ lastCall'.err = "none"
        /\ lastCall'.module.cls \notin DOMAIN modules)
       => \A x \in DOMAIN modules \cap Classes :
            /\ UnconstrainedIn(DOMAIN modules', x, lastCall'.module.cls)
                => PrecedesIn(ordered_modules', modules[x], lastCall'.module)
            /\ \A y \in DOMAIN modules \cap Classes :
                (/\ UnconstrainedIn(DOMAIN modules, x, y)
                 /\ UnconstrainedIn(DOMAIN modules', x, y))
                => (PrecedesIn(ordered_modules, modules[x], modules[y])
                        <=> PrecedesIn(ordered_modules', modules[x], modules[y]))]_vars

\* C6: registering a second instance of a registered class replaces the first:
\* after the call the registry and the module order hold the new instance
\* exactly once and not the old one. Stated for registries whose dependencies
\* are all registered and acyclic, where ordering is meant to succeed.
C6_ReregistrationReplaces ==
    [][(/\ lastCall'.op = "register"
        /\ lastCall'.module.cls \in DOMAIN modules
        /\ modules[lastCall'.module.cls] # lastCall'.module
        /\ Resolved'
        /\ Acyclic')
       => /\ modules'[lastCall'.module.cls] = lastCall'.module
          /\ Count(ordered_modules', lastCall'.module) = 1
          /\ Count(ordered_modules', modules[lastCall'.module.cls]) = 0]_vars

\* ========================================================= event handling
\* the (key, listener) pairs of the invocations of the last emit
InvokedPairs == {<<invoked[k].key, invoked[k].listener>> : k \in DOMAIN invoked}

\* C7: one module's emit_event(label) invokes exactly the listeners registered
\* for the label and the module's generic listeners, each with its registered
\* priority, in ascending priority.
C7_ExactListenersAscendingPriority ==
    lastEmit.kind = "module" =>
        LET m == lastEmit.module
            label == lastEmit.label IN
        /\ InvokedPairs = ({label} \X listeners[m][label])
                            \cup ({NoLabel} \X generic_listeners[m])
        /\ Len(invoked) = Cardinality(listeners[m][label])
                            + Cardinality(generic_listeners[m])
        /\ \A k \in DOMAIN invoked :
              invoked[k].priority
                  = listener_priorities[m][<<invoked[k].key, invoked[k].listener>>]
        /\ \A i \in DOMAIN invoked, j \in DOMAIN invoked :
              i < j => invoked[i].priority <= invoked[j].priority

\* listeners registered on 'time_step' at the priorities 5, 10, 1 (f, g, h in
\* this order) were invoked in the order of the priorities 1, 5, 10
C7_Witness ==
    /\ lastEmit.kind = "module"
    /\ lastEmit.label = "time_step"
    /\ listeners[ModuleA]["time_step"] = {"f", "g", "h"}
    /\ listener_priorities[ModuleA][<<"time_step", "f">>] = 5
    /\ listener_priorities[ModuleA][<<"time_step", "g">>] = 10
    /\ listener_priorities[ModuleA][<<"time_step", "h">>] = 1
    /\ [k \in DOMAIN invoked |-> invoked[k].listener] = <<"h", "f", "g">>

\* C8: within one module's emit_event, listeners of equal priority are invoked
\* in the order in which they were registered.
C8_EqualPriorityInRegistrationOrder ==
    lastEmit.kind = "module" =>
        \A i \in DOMAIN invoked, j \in DOMAIN invoked :
            (i < j /\ invoked[i].priority = invoked[j].priority
                /\ invoked[i].listener # invoked[j].listener)
            => Rank(invoked[i].listener) < Rank(invoked[j].listener)

\* the position of the module object in the module order
ModulePosition(m) == Index0(ordered_modules, m)

\* C9: the invocations of one Simulation.emit_event are ordered
\* lexicographically by (position of the module in the module order, priority,
\* registration order).
C9_LexicographicInvocationOrder ==
    lastEmit.kind = "simulation" =>
        \A i \in DOMAIN invoked, j \in DOMAIN invoked :
            i < j =>
                \/ ModulePosition(invoked[i].module) < ModulePosition(invoked[j].module)
                \/ /\ invoked[i].module = invoked[j].module
                   /\ \/ invoked[i].priority < invoked[j].priority
                      \/ /\ invoked[i].priority = invoked[j].priority
                         /\ \/ invoked[i].listener = invoked[j].listener
                            \/ Rank(invoked[i].listener) < Rank(invoked[j].listener)

\* C10: every listener is invoked with its own copy of the mask: what a listener
\* does to its mask shows neither in the mask any listener of the emit is
\* given nor in the emitter's mask.
C10_MaskCopiedPerListener ==
    lastEmit.kind # "none" =>
        /\ \A k \in DOMAIN invoked : invoked[k].seen = lastEmit.mask
        /\ lastEmit.mask_after = lastEmit.mask

\* a listener that changes its mask ran before another listener of its module
\* and before a listener of a later module
C10_Witness ==
    /\ lastEmit.kind = "simulation"
    /\ \E i \in DOMAIN invoked, j \in DOMAIN invoked, k \in DOMAIN invoked :
        /\ i < j
        /\ j < k
        /\ invoked[i].listener \in Mutators
        /\ invoked[j].module = invoked[i].module
        /\ invoked[k].module # invoked[i].module

\* ================================================================ step loop
\* the last call was an iteration of the loop of run
StepDone == lastCall.op = "step"

\* the invocations of the last step that are listeners of the label
InvocationsOf(label) == {n \in DOMAIN invoked : invoked[n].label = label}

\* C11: in every step 'deaths' is emitted only after the two 'time_step'
\* listeners of the Base module, aging and then mortality, have done their work
\* (the simulants of the step's start that were alive are aged, the simulants
\* of the deaths mask are dead), and every 'deaths' listener of the step runs
\* before any listener of a label that is emitted later in the step.
C11_DeathsAfterAgingAndMortality ==
    StepDone =>
        \A k \in DOMAIN emitted :
            emitted[k].label = "deaths" =>
                /\ \E a \in DOMAIN invoked, b \in DOMAIN invoked :
                    /\ a < b
                    /\ b <= emitted[k].at
                    /\ invoked[a].listener = "advance_age"
                    /\ invoked[b].listener = "mortality_handler"
                    /\ invoked[a].module.cls = BaseSimulationModule
                    /\ invoked[b].module.cls = BaseSimulationModule
                /\ \A i \in Rows :
                    /\ emitted[k].mask[i] => ~emitted[k].table[i].alive
                    /\ emitted[1].table[i].alive =>
                         emitted[k].table[i].fractional_age
                            = emitted[1].table[i].fractional_age
                                + timedelta_days(last_time_step)
                /\ \A j \in DOMAIN emitted :
                    (j > k /\ emitted[j].label # "deaths") =>
                        /\ \A n \in InvocationsOf("deaths") : n <= emitted[j].at
                        /\ \A n \in InvocationsOf(emitted[j].label) : n > emitted[k].at

\* a step in which a simulant died, a 'deaths' listener ran, and
\* 'general_healthcare_access' was emitted and listened to afterwards
C11_Witness ==
    /\ StepDone
    /\ \E k \in DOMAIN emitted, j \in DOMAIN emitted :
        /\ emitted[k].label = "deaths"
        /\ \E i \in Rows : emitted[k].mask[i]
        /\ j > k
        /\ emitted[j].label = "general_healthcare_access"
    /\ InvocationsOf("deaths") # {}
    /\ InvocationsOf("general_healthcare_access") # {}

\* the invocations of the listener of the module object in the last step
InvocationCount(m, listener, label) ==
    Cardinality({n \in InvocationsOf(label) :
                    invoked[n].module = m /\ invoked[n].listener = listener})

\* C12: in every iteration of the run loop the driver emits
\* 'time_step__continuous' after 'time_step', so that every listener registered
\* on 'time_step__continuous' (the blood pressure update) is invoked once.
C12_ContinuousEmittedEveryStep ==
    StepDone =>
        /\ \E k \in DOMAIN emitted, j \in DOMAIN emitted :
            /\ k < j
            /\ emitted[k].label = "time_step"
            /\ emitted[j].label = "time_step__continuous"
        /\ \A k \in DOMAIN ordered_modules :
            \A f \in listeners[ordered_modules[k]]["time_step__continuous"] :
                InvocationCount(ordered_modules[k], f, "time_step__continuous") = 1

\* C13: every step adds the modules' YLD on the living simulants to the YLD of
\* the year of the clock, so that YLD[y] is the total over the steps of year y.
C13_YldAccumulatedPerYear ==
    [][pc = "running" =>
        LET year == year_of(current_time) IN
        /\ year \in DOMAIN yld_by_year'
        /\ yld_by_year'[year]
             = (IF year \in DOMAIN yld_by_year THEN yld_by_year[year] ELSE 0)
                + years_lived_with_disability(ordered_modules, population')]_vars

\* C14: during a run no simulant's alive goes from false to true: not at any
\* emit of a step (aging, mortality, deaths listeners, incidence handlers) and
\* not at the end of the step.
C14_AliveNonIncreasing ==
    [][pc = "running" =>
        \A i \in Rows :
            /\ population'[i].alive => population[i].alive
            /\ \A k \in DOMAIN emitted' :
                /\ emitted'[k].table[i].alive => population[i].alive
                /\ population'[i].alive => emitted'[k].table[i].alive
                /\ \A j \in DOMAIN emitted' :
                    (k < j /\ emitted'[j].table[i].alive) => emitted'[k].table[i].alive]_vars

\* a step of a run was taken with a simulant that was dead when the step began
C14_Witness ==
    /\ StepDone
    /\ \E i \in Rows : ~emitted[1].table[i].alive /\ ~population[i].alive

\* C15: the aging listener applies to living simulants only: in each step a
\* living simulant's fractional_age grows by time_step.days/365, and the
\* fractional_age and the age of a dead simulant stay as they are.
C15_AgingOnlyLiving ==
    [][pc = "running" =>
        \A i \in Rows :
            IF population[i].alive
                THEN population'[i].fractional_age
                        = population[i].fractional_age + timedelta_days(last_time_step)
                ELSE /\ population'[i].fractional_age = population[i].fractional_age
                     /\ population'[i].age = population[i].age]_vars

\* age is the floor of the fractional age, which is counted in 1/365 of a year
AgeIsFloor(row) ==
    /\ 365 * row.age <= row.fractional_age
    /\ row.fractional_age < 365 * (row.age + 1)

\* C16: after load_population and after every step, age == floor(fractional_age)
\* for every simulant; the mortality handler of a step finds the age already
\* recomputed from the fractional_age the step has aged (the table at the emit
\* of 'deaths' has the step's final fractional_age and its floor as age).
C16_AgeIsFloorOfFractionalAge ==
    /\ \A i \in Rows : AgeIsFloor(population[i])
    /\ StepDone =>
        \A k \in DOMAIN emitted :
            emitted[k].label = "deaths" =>
                \A i \in Rows :
                    /\ AgeIsFloor(emitted[k].table[i])
                    /\ emitted[k].table[i].fractional_age = population[i].fractional_age
                    /\ emitted[k].table[i].age = population[i].age

\* a step after which a simulant is a year older than it was loaded
C16_Witness ==
    /\ StepDone
    /\ \E i \in Rows : population[i].age > population_columns[i].age

\* C17: reset restores every column of the population table to what
\* load_population made (age and fractional_age of the loaded age, alive, the
\* columns of the modules, year 0), sets the clock to None and empties the
\* per-year accumulators of the Simulation; a reset after a reset changes
\* nothing.
C17_ResetRestoresInitialImage ==
    [][lastCall'.op = "reset" =>
        /\ population_columns' = population_columns
        /\ DOMAIN population' = Rows
        /\ \A i \in Rows :
            population'[i] =
                [age |-> population_columns[i].age,
                 fractional_age |-> 365 * population_columns[i].age,
                 alive |-> TRUE, year |-> 0,
                 heart_attack |-> FALSE, hemorrhagic_stroke |-> FALSE,
                 systolic_blood_pressure |-> InitialSBP,
                 taking_blood_pressure_medication_a |-> FALSE,
                 taking_blood_pressure_medication_b |-> FALSE,
                 healthcare_followup_date |-> NoTime]
        /\ current_time' = NoTime
        /\ DOMAIN yll_by_year' = {}
        /\ DOMAIN yld_by_year' = {}
        /\ (lastCall.op = "reset" => UNCHANGED vars)]_vars

\* a reset after a run
C17_Witness ==
    /\ lastCall.op = "reset"
    /\ runs >= 1
    /\ pc = "idle"

\* C18: after Simulation.reset the per-run accumulators of the modules are
\* cleared: the screening module's cost_by_year holds no cost of the runs
\* before the reset.
C18_ResetClearsModuleAccumulators ==
    [][lastCall'.op = "reset" =>
        \A year \in DOMAIN cost_by_year' : cost_by_year'[year] = 0]_vars

\* what a step leaves: the population table and the accumulators
step_result(r) ==
    [population |-> r.population, yll_by_year |-> r.yll_by_year,
     cost_by_year |-> r.cost_by_year,
     ylds |-> years_lived_with_disability(r.order, r.population)]

\* the module orders the registered modules can be in after their registration
PossibleOrders ==
    {o.val : o \in {x \in reorder_outcomes(modules, DEPENDENCIES) : x.err = "none"}}

\* C19: with the same draws, the same registered modules and the same
\* time_step, a step ends with the same population table and accumulators,
\* whatever order the modules and the equal-priority listeners are taken from
\* their sets in.
C19_Deterministic ==
    pc = "running" =>
        \A draws \in [1..draw_calls -> Draws] :
            Cardinality({step_result(r) :
                            r \in UNION {time_step_outcomes(order, draws)
                                         : order \in PossibleOrders}}) = 1

\* C20: the incidence rate of a cause for a step is the additive rates of the
\* modules, times the risk-factor adjustment, damped by (1 - m) for the
\* mediation factor m declared on the cause, converted from yearly to step.
C20_IncidenceRateComposition ==
    pc = "running" =>
        \A cause \in Conditions, i \in Rows :
            incidence_rates(ordered_modules, population, cause, last_time_step)[i]
                = from_yearly_rate(
                    (((AdditiveIncidenceRate
                        * blood_pressure_adjustment(population[i].systolic_blood_pressure))
                       \div 1000) * (1000 - MediationFactor)) \div 1000,
                    last_time_step)


\* ------------------------------------------------------------ interpolation
\* the keys of the query that were absent from the construction data
AbsentKeys(call) ==
    {call.query[i].sex : i \in DOMAIN call.query} \ DOMAIN interpolations

\* C21: a call of the Interpolation on a query with a key that was absent from
\* the construction data fails with MissingKeyError and returns no result
C21_MissingKeyError ==
    (interpolated.kind # "none" /\ AbsentKeys(interpolated) # {})
        => (interpolated.kind = "MissingKeyError" /\ interpolated.result = NoResult)


\* ------------------------------------------------- years of life lost, run
\* by_year[year] of a defaultdict(float)
by_year_get(by_year, year) == IF year \in DOMAIN by_year THEN by_year[year] ELSE 0

\* the simulants whose alive changes from true to false in the step
Decedents == [i \in Rows |-> population[i].alive /\ ~population'[i].alive]

TimeStepEmits(log) == {k \in DOMAIN log : log[k].label = "time_step"}

\* C23: run(start, end, time_step) terminates; it emits 'time_step' exactly once
\* for each of the clock values start, start + time_step, ... that are not after
\* end, which is floor((end - start) / time_step) + 1 times when start <= end and
\* never when start > end, and it ends with current_time at the first of these
\* clock values after end.
C23_RunTerminatesAfterLastStep ==
    /\ [][/\ (pc = "idle" /\ pc' # "idle") =>
                /\ current_time' = StartTime
                /\ (pc' = "done") <=> (StartTime > end_time')
                /\ pc' = "done" => emitted' = emitted
          /\ pc = "running" =>
                /\ current_time <= end_time
                /\ (current_time - StartTime) % last_time_step = 0
                /\ Cardinality(TimeStepEmits(emitted')) = 1
                /\ current_time' = current_time + last_time_step
                /\ (pc' = "done") <=> (current_time' > end_time)
                /\ pc' = "done" =>
                      (current_time' - StartTime) \div last_time_step
                          = (end_time - StartTime) \div last_time_step + 1]_vars
    /\ (pc = "running" ~> pc = "done")

\* a run has ended after more than one iteration
C23_Witness ==
    /\ pc = "done"
    /\ StepDone
    /\ current_time > StartTime + last_time_step


\* ------------------------------------------- the registry, further claims
\* C24: a module may declare the Base module among its dependencies:
\* register_module of a module whose only dependency is the Base module, on a
\* Simulation whose other modules declare no dependencies, succeeds, the Base
\* module stays first and the module is placed after it.
C24_DependencyOnBase ==
    (/\ lastCall.op = "register"
     /\ DEPENDENCIES[lastCall.module.cls] = {BaseSimulationModule}
     /\ \A c \in DOMAIN modules \ {lastCall.module.cls} : DEPENDENCIES[c] = {})
        => /\ lastCall.err = "none"
           /\ ordered_modules[1] = modules[BaseSimulationModule]
           /\ Index0(ordered_modules, lastCall.module) > 0


\* C26: after any sequence of register_module and deregister_module calls, the
\* calls that fail with an ordering error included, the module order is a
\* permutation of the registered modules.
C26_OrderIsPermutationOfRegistry ==
    /\ Range(ordered_modules) = Range(modules)
    /\ Len(ordered_modules) = Cardinality(DOMAIN modules)


\* C25: the OpportunisticScreeningModule is placed after the modules it declares
\* to depend on, the BloodPressureModule and the HealthcareAccessModule, in the
\* module order whenever all three are registered.
C25_ScreeningAfterDeclaredDependencies ==
    (DEPENDS \cup {OpportunisticScreeningModule} \subseteq DOMAIN modules
        /\ lastCall.err = "none")
        => \A d \in DEPENDS :
              Index0(ordered_modules, modules[d])
                  < Index0(ordered_modules, modules[OpportunisticScreeningModule])


\* ---------------------------------------------------- blood pressure tests
\* C27: the three masks _hypertensive_categories returns are pairwise disjoint
\* and their union is the input mask, for every age (60 included) and every
\* systolic blood pressure (140, 150 and 180 included).
C27_CategoriesPartitionMask ==
    categories # NoCategories =>
        \A i \in Rows :
            /\ categories.mask[i]
                <=> (\/ categories.normotensive[i]
                     \/ categories.hypertensive[i]
                     \/ categories.severe_hypertension[i])
            /\ ~(categories.normotensive[i] /\ categories.hypertensive[i])
            /\ ~(categories.normotensive[i] /\ categories.severe_hypertension[i])
            /\ ~(categories.hypertensive[i] /\ categories.severe_hypertension[i])

\* the categories of a simulant of age 60 at one of the limits were computed
C27_Witness ==
    /\ categories # NoCategories
    /\ \E i \in Rows :
        /\ categories.mask[i]
        /\ population[i].age = 60
        /\ population[i].systolic_blood_pressure = 150
        /\ categories.hypertensive[i]

\* a month of the followup dates: 30.5 days
Month == ScreeningTimeStep

\* a simulant below the limit of its age: 140 under 60, 150 from 60 on
Normotensive(row) ==
    \/ row.age < 60 /\ row.systolic_blood_pressure < 140
    \/ row.age >= 60 /\ row.systolic_blood_pressure < 150

\* C28: after followup_blood_pressure_test every normotensive simulant of the
\* mask who was taking at least one medication takes neither and has its
\* followup 11 months later, and every normotensive simulant of the mask who
\* was taking no medication has its followup 60 months later.
C28_FollowupOfNormotensive ==
    [][(lastEmit' # lastEmit /\ lastEmit'.label = "followup_healthcare_access") =>
        \A i \in Rows :
            (lastEmit'.mask[i] /\ Normotensive(population[i])) =>
                IF \/ population[i].taking_blood_pressure_medication_a
                   \/ population[i].taking_blood_pressure_medication_b
                    THEN /\ ~population'[i].taking_blood_pressure_medication_a
                         /\ ~population'[i].taking_blood_pressure_medication_b
                         /\ population'[i].healthcare_followup_date
                                = current_time + 11 * Month
                    ELSE population'[i].healthcare_followup_date
                                = current_time + 60 * Month]_vars

====
